---- MODULE Spec2Model ----
(***************************************************************************)
(* ATS Resume Generator: the ResumeGenerator form (frontend/src/           *)
(* ResumeGenerator.jsx) and the POST /generate-resume-from-url pipeline    *)
(* it calls.  The form is modelled from its source; the backend pipeline   *)
(* (orchestrator, extractor) is modelled from the written specification.   *)
(*                                                                         *)
(* A step of the model is one run-to-completion piece of JavaScript: an    *)
(* event handler up to its first await, or the continuation of generate    *)
(* after an awaited promise settles.  State updates queued by one piece    *)
(* are committed together before the next event is handled.                *)
(***************************************************************************)
EXTENDS Integers, Sequences, FiniteSets, TLC

\* ------------------------------------------------------------------ bounds

\* Longest text typed into the URL field.
MaxLen == 2

\* Number of requests the form may issue in one behaviour.
MaxPosts == 2

\* ----------------------------------------------------------------- strings

\* Characters of the URL field: a whitespace and a non-whitespace character.
Chars == {" ", "a"}

\* Every text of at most MaxLen characters, as a sequence of characters.
Urls == UNION {[1..n -> Chars] : n \in 0..MaxLen}

IsSpace(c) == c = " "

RECURSIVE TrimStart(_)
TrimStart(s) ==
    IF s = <<>> THEN <<>>
    ELSE IF IsSpace(Head(s)) THEN TrimStart(Tail(s))
    ELSE s

RECURSIVE TrimEnd(_)
TrimEnd(s) ==
    IF s = <<>> THEN <<>>
    ELSE IF IsSpace(s[Len(s)]) THEN TrimEnd(SubSeq(s, 1, Len(s) - 1))
    ELSE s

\* String.prototype.trim
Trim(s) == TrimEnd(TrimStart(s))

\* ----------------------------------------------------------- form constants

ValidationMessage == "Please paste a Job Description URL"

GenericFailure == "Failed to generate resume"

FallbackMessage == "Something went wrong"

FileName == "ATS_Resume.pdf"

EndpointPath == "/generate-resume-from-url"

\* Messages of the errors fetch() and Response.blob() may reject with; the
\* empty message exercises the fallback of the catch block.
RejectMessages == {"", "Failed to fetch"}

\* --------------------------------------------------------- backend (spec)

Stages == <<"Idle", "Fetching", "Extracting", "Generating", "Rendering", "Done">>

\* A variant of NextStage that goes from Fetching straight to Generating.
NextStageSkipping(s) ==
    CASE s = "Idle" -> "Fetching"
      [] s = "Fetching" -> "Generating"
      [] s = "Extracting" -> "Generating"
      [] s = "Generating" -> "Rendering"
      [] OTHER -> "Done"

\* The stage that follows s when s succeeds.
NextStage(s) ==
    CASE s = "Idle" -> "Fetching"
      [] s = "Fetching" -> "Extracting"
      [] s = "Extracting" -> "Generating"
      [] s = "Generating" -> "Rendering"
      [] OTHER -> "Done"

\* The error kind a failure of stage s is reported as.
ErrorKind(s) ==
    CASE s = "Idle" -> "InvalidInput"
      [] s = "Fetching" -> "FetchError"
      [] s = "Extracting" -> "ExtractionError"
      [] s = "Generating" -> "GenerationError"
      [] OTHER -> "RenderError"

\* Words a fetched job-description page may contain.
Words == {"Python", "Docker", "team"}

\* The texts the Fetcher may extract: any set of words.
Texts == SUBSET Words

\* Skill names the Extractor recognises.
SkillNames == {"Python", "Docker", "Django", "Kubernetes"}

\* The static lookup table of adjacent skills.
Related(k) ==
    CASE k = "Python" -> {"Django", "Docker"}
      [] k = "Docker" -> {"Kubernetes"}
      [] OTHER -> {}

RequiredKeywords(text) == text \cap SkillNames

\* A variant of Extract whose related skills replace the required keywords.
ExtractReplacing(text, flag) ==
    LET req == RequiredKeywords(text)
        exp == UNION {Related(k) : k \in req}
    IN  IF flag THEN [required |-> {}, expanded |-> exp]
        ELSE [required |-> req, expanded |-> {}]

\* Keyword/Skill Extractor: the KeywordSet of a text under the expansion flag.
Extract(text, flag) ==
    LET req == RequiredKeywords(text)
    IN  [required |-> req,
         expanded |-> IF flag THEN UNION {Related(k) : k \in req} \ req ELSE {}]

\* The skills list of the resume drafted from a KeywordSet.
Skills(ks) == ks.required \cup ks.expanded

NoKeywords == [required |-> {}, expanded |-> {}]

NoResponse == [kind |-> "none", detail |-> "", body |-> ""]

\* ------------------------------------------------------------------- state

VARIABLES
    jdUrl,      \* useState(""): the URL field
    greyHat,    \* useState(true): the toggle
    loading,    \* useState(false)
    error,      \* useState(""): the toast text
    calls,      \* generate invocations suspended at an await, with their request
    posts,      \* number of fetch() calls made
    downloads,  \* file names of the downloads triggered, in order
    last        \* history: what the most recent generate invocation came to

vars == <<jdUrl, greyHat, loading, error, calls, posts, downloads, last>>

Init ==
    /\ jdUrl = <<>>
    /\ greyHat = TRUE
    /\ loading = FALSE
    /\ error = ""
    /\ calls = <<>>
    /\ posts = 0
    /\ downloads = <<>>
    /\ last = [kind |-> "none", detail |-> ""]

\* ------------------------------------------------------------ form helpers

\* A variant of IsBlank that tests !jdUrl, without trim().
IsBlankUntrimmed(s) == s = <<>>

\* s is empty or holds whitespace only.
IsSpaceOnly(s) == \A i \in 1..Len(s) : IsSpace(s[i])

\* !jdUrl.trim()
IsBlank(s) == Trim(s) = <<>>

\* A variant of ButtonDisabled: a button without the disabled attribute.
ButtonNeverDisabled == FALSE

\* <button onClick={generate} disabled={loading}>
ButtonDisabled == loading

\* A variant of RequestBody that sends jdUrl.trim().
RequestBodyTrimmed(url, flag) == [jd_url |-> Trim(url), grey_hat |-> flag]

\* JSON.stringify({ jd_url: jdUrl, grey_hat: greyHat })
RequestBody(url, flag) == [jd_url |-> url, grey_hat |-> flag]

\* fetch(`${API_BASE}/generate-resume-from-url`, { method: "POST", ... })
Request(url, flag) ==
    [method |-> "POST", path |-> EndpointPath, body |-> RequestBody(url, flag)]

\* A variant of ErrorOnStart without setError("").
ErrorKept(e) == e

\* setError("") when a request starts
ErrorOnStart(e) == ""

\* A variant of CatchMessage without the fallback text.
MessageOnly(m) == m

\* err.message || "Something went wrong"
CatchMessage(m) == IF m # "" THEN m ELSE FallbackMessage

\* A variant of ResponseError that throws the error the response carries.
ResponseDetail(res) == res.detail

\* if (!res.ok) throw new Error("Failed to generate resume")
ResponseError(res) == GenericFailure

\* A variant of Download without a.click().
NotClicked(ds) == ds

\* a.download = "ATS_Resume.pdf"; a.click()
Download(ds) == Append(ds, FileName)

\* A variant of Finally without setLoading(false).
LoadingKept(l) == l

\* finally { setLoading(false) }
Finally(l) == FALSE

\* The suspended invocations other than the i-th.
Without(i) == SubSeq(calls, 1, i - 1) \o SubSeq(calls, i + 1, Len(calls))

\* The catch and finally blocks, for an error with message m caught by the
\* i-th invocation.
Catch(i, m, kind, detail) ==
    /\ error' = CatchMessage(m)
    /\ loading' = Finally(loading)
    /\ calls' = Without(i)
    /\ last' = [kind |-> kind, detail |-> detail]
    /\ UNCHANGED <<jdUrl, greyHat, posts, downloads>>

\* ------------------------------------------------------------ form actions

\* onChange={(e) => setJdUrl(e.target.value)}
SetJdUrl(v) ==
    /\ jdUrl' = v
    /\ UNCHANGED <<greyHat, loading, error, calls, posts, downloads, last>>

\* onChange={() => setGreyHat(!greyHat)}
ToggleGreyHat ==
    /\ greyHat' = ~greyHat
    /\ UNCHANGED <<jdUrl, loading, error, calls, posts, downloads, last>>

\* generate, lines 10-13: the validation branch.
Rejected ==
    /\ error' = ValidationMessage
    /\ last' = [kind |-> "invalid", detail |-> ""]
    /\ UNCHANGED <<jdUrl, greyHat, loading, calls, posts, downloads>>

\* generate, lines 15-27: up to its first await, the POST is sent.
Started ==
    /\ loading' = TRUE
    /\ error' = ErrorOnStart(error)
    /\ posts' = posts + 1
    /\ calls' = Append(calls,
                  [id |-> posts + 1, req |-> Request(jdUrl, greyHat), pc |-> "fetch",
                   stage |-> "Idle", text |-> {}, keywords |-> NoKeywords,
                   reported |-> 0, res |-> NoResponse])
    /\ last' = [kind |-> "pending", detail |-> ""]
    /\ UNCHANGED <<jdUrl, greyHat, downloads>>

\* A click on the Generate button: generate runs to its first await or return.
Generate ==
    /\ ~ButtonDisabled
    /\ IF IsBlank(jdUrl) THEN Rejected
       ELSE posts < MaxPosts /\ Started

\* await fetch(...) rejects (network failure) with an error of message m.
FetchReject(i, m) ==
    /\ calls[i].pc = "fetch"
    /\ Catch(i, m, "fetch_reject", "")

\* await fetch(...) resolves with the response the backend sent.
FetchResolve(i) ==
    /\ calls[i].pc = "fetch"
    /\ calls[i].res.kind # "none"
    /\ IF calls[i].res.kind = "err"
       THEN Catch(i, ResponseError(calls[i].res), "http_error", calls[i].res.detail)
       ELSE /\ calls' = [calls EXCEPT ![i].pc = "blob"]
            /\ UNCHANGED <<jdUrl, greyHat, loading, error, posts, downloads, last>>

\* await res.blob() resolves: the download is triggered.
BlobResolve(i) ==
    /\ calls[i].pc = "blob"
    /\ downloads' = Download(downloads)
    /\ loading' = Finally(loading)
    /\ calls' = Without(i)
    /\ last' = [kind |-> "success", detail |-> ""]
    /\ UNCHANGED <<jdUrl, greyHat, error, posts>>

\* await res.blob() rejects with an error of message m.
BlobReject(i, m) ==
    /\ calls[i].pc = "blob"
    /\ Catch(i, m, "blob_reject", "")

\* --------------------------------------------------------- backend actions

\* The stage of request i succeeds.
StageSucceeds(i, t) ==
    LET c == calls[i]
        s == NextStage(c.stage)
    IN  /\ c.pc = "fetch"
        /\ c.stage \notin {"Done", "Failed"}
        /\ IF c.stage = "Fetching" THEN t \in Texts ELSE t = {}
        /\ calls' = [calls EXCEPT ![i] =
               [c EXCEPT
                  !.stage = s,
                  !.text = IF c.stage = "Fetching" THEN t
                           ELSE IF s = "Done" THEN {} ELSE c.text,
                  !.keywords = IF c.stage = "Extracting"
                               THEN Extract(c.text, c.req.body.grey_hat)
                               ELSE IF s = "Done" THEN NoKeywords ELSE c.keywords,
                  !.reported = IF s = "Done" THEN c.reported + 1 ELSE c.reported,
                  !.res = IF s = "Done"
                          THEN [kind |-> "ok", detail |-> "", body |-> "pdf"]
                          ELSE c.res]]
        /\ UNCHANGED <<jdUrl, greyHat, loading, error, posts, downloads, last>>

\* The stage of request i fails.
StageFails(i) ==
    LET c == calls[i]
    IN  /\ c.pc = "fetch"
        /\ c.stage \notin {"Done", "Failed"}
        /\ calls' = [calls EXCEPT ![i] =
               [c EXCEPT
                  !.stage = "Failed",
                  !.text = {},
                  !.keywords = NoKeywords,
                  !.reported = c.reported + 1,
                  !.res = [kind |-> "err", detail |-> ErrorKind(c.stage), body |-> ""]]]
        /\ UNCHANGED <<jdUrl, greyHat, loading, error, posts, downloads, last>>

\* ----------------------------------------------------------- specification

Settle ==
    \E i \in 1..Len(calls) :
        \/ FetchResolve(i)
        \/ BlobResolve(i)
        \/ \E m \in RejectMessages : FetchReject(i, m) \/ BlobReject(i, m)

Next ==
    \/ \E v \in Urls : SetJdUrl(v)
    \/ ToggleGreyHat
    \/ Generate
    \/ \E i \in 1..Len(calls) : FetchResolve(i)
    \/ \E i \in 1..Len(calls) : BlobResolve(i)
    \/ \E i \in 1..Len(calls), m \in RejectMessages : FetchReject(i, m)
    \/ \E i \in 1..Len(calls), m \in RejectMessages : BlobReject(i, m)
    \/ \E i \in 1..Len(calls), t \in Texts : StageSucceeds(i, t)
    \/ \E i \in 1..Len(calls) : StageFails(i)

Spec == Init /\ [][Next]_vars

\* Every awaited promise eventually settles.
FairSpec == Spec /\ WF_vars(Settle)

\* -------------------------------------------------------------- properties

\* The ids of the suspended invocations of cs.
Ids(cs) == {cs[i].id : i \in 1..Len(cs)}

\* The invocation of cs with the given id.
ById(cs, id) == cs[CHOOSE i \in 1..Len(cs) : cs[i].id = id]

\* The invocations that complete in a step, and those it starts.
Completed == Ids(calls) \ Ids(calls')

Begun == Ids(calls') \ Ids(calls)

FailureKinds == {"http_error", "fetch_reject", "blob_reject"}

\* C1: a click on Generate while the URL field is empty or holds only
\* whitespace issues no POST, sets the error to "Please paste a Job
\* Description URL", leaves loading false and triggers no download.
C1_EmptyUrlRejected ==
    [][(~loading /\ IsSpaceOnly(jdUrl) /\ jdUrl' = jdUrl /\ greyHat' = greyHat)
         => /\ error' = ValidationMessage
            /\ loading' = FALSE
            /\ posts' = posts
            /\ calls' = calls
            /\ downloads' = downloads]_vars

C1_Witness ==
    /\ last.kind = "invalid"
    /\ error = ValidationMessage
    /\ jdUrl = <<" ", " ">>
    /\ ~loading
    /\ posts = 1

\* C2: an invocation that fails (non-2xx response, fetch or body read
\* rejected) triggers no download and leaves a non-empty error when it
\* completes; a download is triggered only by an invocation that received a
\* 2xx response.
C2_NoPartialOutput ==
    [][/\ \A id \in Completed :
            (ById(calls, id).pc = "fetch" \/ last'.kind \in FailureKinds)
              => downloads' = downloads /\ error' # ""
       /\ downloads' # downloads
            => \E id \in Completed : /\ ById(calls, id).pc = "blob"
                                     /\ ById(calls, id).res.kind = "ok"]_vars

C2_Witness ==
    /\ last.kind = "blob_reject"
    /\ error = FallbackMessage
    /\ downloads = <<>>
    /\ calls = <<>>

\* C3: an invocation whose POST received a 2xx response and whose body was
\* read triggers exactly one download, named ATS_Resume.pdf, and the error
\* is empty when it completes.
C3_SuccessDownloads ==
    [][\A id \in Completed :
          last'.kind = "success"
            => /\ ById(calls, id).res.kind = "ok"
               /\ downloads' = Append(downloads, "ATS_Resume.pdf")
               /\ error' = ""]_vars

C3_Witness ==
    /\ last.kind = "success"
    /\ downloads = <<"ATS_Resume.pdf", "ATS_Resume.pdf">>
    /\ error = ""

\* C4: every request issued is a POST to /generate-resume-from-url whose
\* body has exactly the fields jd_url and grey_hat, holding the URL field and
\* the toggle as they were when generate was invoked; later edits and toggles
\* leave a request in flight as it was sent.
C4_RequestBody ==
    [][/\ \A id \in Begun :
            LET r == ById(calls', id).req
            IN  /\ r.method = "POST"
                /\ r.path = "/generate-resume-from-url"
                /\ DOMAIN r.body = {"jd_url", "grey_hat"}
                /\ r.body.jd_url = jdUrl
                /\ r.body.grey_hat = greyHat
       /\ \A id \in Ids(calls) \cap Ids(calls') :
            ById(calls', id).req = ById(calls, id).req]_vars

C4_Witness ==
    \E i \in 1..Len(calls) :
        /\ calls[i].req.body.jd_url = <<" ", "a">>
        /\ jdUrl = <<"a">>
        /\ calls[i].req.body.grey_hat # greyHat

\* C5 as stated: after a non-2xx response, the error displayed is the error
\* the response carries.
C5_ShowsStageError ==
    last.kind = "http_error" => error = last.detail

\* C5 as amended: after a non-2xx response the error displayed is "Failed to
\* generate resume", whichever stage the response says failed.
C5_ShowsGenericFailure ==
    last.kind = "http_error"
      => error = "Failed to generate resume"

C5_Witness ==
    /\ last.kind = "http_error"
    /\ last.detail = "GenerationError"
    /\ error = GenericFailure

\* C6: a request moves through Idle, Fetching, Extracting, Generating,
\* Rendering, Done in that order, one stage at a time; a failure moves it
\* from any non-terminal stage to Failed; Done and Failed are terminal; a
\* Failed request has reported exactly one error and no document, and a
\* document is returned only from Done.
C6_StageOrder ==
    [][/\ \A id \in Begun : ById(calls', id).stage = "Idle"
       /\ \A id \in Ids(calls) \cap Ids(calls') :
            LET c == ById(calls, id)
                d == ById(calls', id)
            IN  /\ d.stage # c.stage
                     => \/ \E k \in 1..5 : c.stage = Stages[k] /\ d.stage = Stages[k + 1]
                        \/ /\ d.stage = "Failed"
                           /\ c.stage \notin {"Done", "Failed"}
                           /\ d.res.detail = ErrorKind(c.stage)
                /\ d.stage = "Failed"
                     => d.reported = 1 /\ d.res.kind = "err" /\ d.res.body = ""
                /\ d.res.kind = "ok" => d.stage = "Done" /\ d.reported = 1
                /\ d.res.body # "" => d.stage = "Done"
                /\ d.stage \notin {"Done", "Failed"} => d.res = NoResponse]_vars

C6_Witness ==
    \E i \in 1..Len(calls) :
        /\ calls[i].stage = "Failed"
        /\ calls[i].res.detail = "RenderError"

\* C7: for one job-description text, the skills list produced with the
\* expansion flag set contains every required keyword produced without it,
\* and without the flag the expanded set is empty.
C7_ExpansionOnlyAdds ==
    \A i \in 1..Len(calls) :
        calls[i].stage \in {"Generating", "Rendering"}
          => /\ Extract(calls[i].text, FALSE).required \subseteq Skills(calls[i].keywords)
             /\ Skills(Extract(calls[i].text, FALSE)) \subseteq Skills(calls[i].keywords)
             /\ ~calls[i].req.body.grey_hat => calls[i].keywords.expanded = {}

C7_Witness ==
    \E i \in 1..Len(calls) :
        /\ calls[i].stage = "Generating"
        /\ calls[i].req.body.grey_hat
        /\ calls[i].text = {"Python", "Docker", "team"}
        /\ calls[i].keywords.expanded # {}

\* C8: an invocation issues one POST and never another; at most one request
\* is in flight, and a POST is issued only when no earlier invocation is
\* still running.
C8_SingleAttempt ==
    [][/\ Len(calls') <= 1
       /\ posts' # posts => posts' = posts + 1 /\ calls = <<>> /\ Len(calls') = 1
       /\ Completed # {} => posts' = posts /\ calls' = <<>>]_vars

C8_Witness ==
    /\ posts = 2
    /\ Len(calls) = 1
    /\ last.kind = "pending"
    /\ downloads = <<"ATS_Resume.pdf">>

\* C9: loading is true exactly while an invocation is suspended at an await,
\* and, the awaited promises settling, it returns to false.
C9_LoadingResets ==
    /\ [](loading <=> calls # <<>>)
    /\ (loading ~> ~loading)

C9_Witness ==
    /\ ~loading
    /\ last.kind = "fetch_reject"
    /\ posts = 2

\* C10: the error is non-empty only if the most recent invocation was
\* rejected by validation or failed; it is empty while a request is in
\* flight, right after a request starts, and after a success.
C10_ErrorReflectsLast ==
    /\ error # "" => last.kind \in {"invalid"} \cup FailureKinds
    /\ calls # <<>> => error = ""
    /\ last.kind \in {"pending", "success"} => error = ""
    /\ last.kind = "pending" <=> calls # <<>>

C10_Witness ==
    /\ last.kind = "pending"
    /\ error = ""
    /\ posts = 2
    /\ downloads = <<>>

====
